---- MODULE Spec2Model ----
(***************************************************************************)
(* Model of the VRF job delegate (package vrf: Delegate.ServicesForSpec,   *)
(* GetStartingResponseCountsV1/V2, getRespCounts) and of the service       *)
(* lifecycle contract (package services: Service template, adapter).       *)
(*                                                                         *)
(* Strings are sequences of one-character strings, byte slices are         *)
(* sequences of 0..255, big integers are base-256 digit sequences.         *)
(***************************************************************************)
EXTENDS Integers, Sequences, FiniteSets, Bags, TLC

VARIABLES
    eth_txes,   \* bag of rows of eth_txes joined with their receipt, if any
    head,       \* evm_heads: latest head number stored for the job's chain
    ret,        \* outcome of the call made over the store, NoCall before it
    state,      \* foo.StartStopOnce: "Unstarted", "Started" or "Stopped"
    stop,       \* foo.stop is closed
    done,       \* foo.done is closed
    launched,   \* number of go f.run() statements executed
    running,    \* number of run loops that have not returned
    crashed,    \* a goroutine panicked (close of a closed channel)
    pc,         \* where each caller is in its call of Start or Close
    callOp,     \* the call each caller made last: "Start", "Close", "none"
    callRet,    \* what that call returned, "none" while it runs
    ctxDone     \* whether the context of that Start was already cancelled

storeVars == <<eth_txes, head, ret>>

svcVars ==
    <<state, stop, done, launched, running, crashed, pc, callOp, callRet,
      ctxDone>>

vars == <<storeVars, svcVars>>

(***************************************************************************)
(* Bounds of the model                                                     *)
(***************************************************************************)
MaxTxes == 2
MaxHead == 2
MaxDepth == 1
MaxTasks == 2
MaxCallers == 2
MaxLaunch == 2

\* var reqID [32]byte
HashLength == 32

(***************************************************************************)
(* Strings and bytes                                                       *)
(***************************************************************************)
Quote == "\""

hextable == <<"0", "1", "2", "3", "4", "5", "6", "7",
              "8", "9", "a", "b", "c", "d", "e", "f">>

upperhex == <<"A", "B", "C", "D", "E", "F">>

\* encoding/hex reverseHexTable: the value of a hex digit, 255 for any other
\* character
fromHexChar(c) ==
    IF \E i \in 1..16 : hextable[i] = c
    THEN (CHOOSE i \in 1..16 : hextable[i] = c) - 1
    ELSE IF \E i \in 1..6 : upperhex[i] = c
         THEN (CHOOSE i \in 1..6 : upperhex[i] = c) + 9
         ELSE 255

\* encoding/hex Decode: the byte of each pair (s[2k-1], s[2k]); an invalid
\* character or an odd length is an error
hexDecodeString(s) ==
    [ok |-> /\ Len(s) % 2 = 0
            /\ \A j \in 1..Len(s) : fromHexChar(s[j]) <= 15,
     bytes |-> [k \in 1..(Len(s) \div 2) |->
                   fromHexChar(s[2 * k - 1]) * 16 + fromHexChar(s[2 * k])]]

\* the lowercase hex text of a byte slice
hexEncodeToString(b) ==
    [j \in 1..(2 * Len(b)) |->
        IF j % 2 = 1 THEN hextable[(b[(j + 1) \div 2] \div 16) + 1]
                     ELSE hextable[(b[j \div 2] % 16) + 1]]

\* meta->'RequestID' of a transaction whose meta holds the 32-byte hash b:
\* the JSON text of the hash, quoted and 0x-prefixed
StoreString(b) == <<Quote, "0", "x">> \o hexEncodeToString(b) \o <<Quote>>

\* strings.Replace(s, `"`, ``, n): s without its first n quote characters
stringsReplace(s, n) ==
    LET quotes == {i \in 1..Len(s) : s[i] = Quote}
        gone == {i \in quotes : Cardinality({j \in quotes : j < i}) < n}
        kept == (1..Len(s)) \ gone
    IN  [k \in 1..Cardinality(kept) |->
            s[CHOOSE i \in kept : Cardinality({j \in kept : j <= i}) = k]]

\* var reqID [32]byte; copy(reqID[:], b): the first 32 bytes of b, zero-filled
copyReqID(b) ==
    [i \in 1..HashLength |-> IF i <= Len(b) THEN b[i] ELSE 0]

\* a big-endian magnitude without its leading zero bytes
stripZeros(b) ==
    LET nz == {i \in 1..Len(b) : b[i] # 0}
    IN  IF nz = {} THEN <<>>
        ELSE SubSeq(b, CHOOSE i \in nz : \A j \in nz : i <= j, Len(b))

RECURSIVE mulAdd(_, _, _, _, _, _)
\* limbs * m + carry, for a magnitude held as little-endian limbs of the
\* given base
mulAdd(limbs, i, m, carry, base, acc) ==
    IF i > Len(limbs) /\ carry = 0
    THEN acc
    ELSE LET cur == (IF i <= Len(limbs) THEN limbs[i] * m ELSE 0) + carry
         IN  mulAdd(limbs, i + 1, m, cur \div base, base,
                    Append(acc, cur % base))

RECURSIVE bytesToLimbs(_, _, _)
\* the big-endian bytes b[i..] shifted into the little-endian base-10^6 limbs
bytesToLimbs(b, i, limbs) ==
    IF i > Len(b) THEN limbs
    ELSE bytesToLimbs(b, i + 1, mulAdd(limbs, 1, 256, b[i], 1000000, <<>>))

RECURSIVE pow10(_)
pow10(k) == IF k = 0 THEN 1 ELSE 10 * pow10(k - 1)

\* the base-10 text of a non-zero magnitude held as base-10^6 limbs: the top
\* limb as it is, every other limb as six digits
limbsToString(limbs) ==
    LET n == Len(limbs)
        w == CHOOSE k \in 1..6 :
                 pow10(k - 1) <= limbs[n] /\ limbs[n] < pow10(k)
    IN  [p \in 1..(w + 6 * (n - 1)) |->
            IF p <= w
            THEN hextable[((limbs[n] \div pow10(w - p)) % 10) + 1]
            ELSE LET q == p - w - 1
                 IN  hextable[((limbs[n - 1 - (q \div 6)]
                                  \div pow10(5 - (q % 6))) % 10) + 1]]

\* new(big.Int).SetBytes(b).String(): the base-10 text of the unsigned
\* big-endian integer b
bigIntString(b) ==
    LET limbs == bytesToLimbs(b, 1, <<>>)
    IN  IF limbs = <<>> THEN <<"0">> ELSE limbsToString(limbs)

(***************************************************************************)
(* The store: eth_txes, eth_tx_attempts, eth_receipts, evm_heads           *)
(***************************************************************************)
\* meta->'RequestID' of a transaction whose meta holds no RequestID
NULL == 0

\* block_number of a transaction that has no receipt
NoReceipt == -1

InFlightStates == {"unconfirmed", "unstarted", "in_progress"}

TxStates == InFlightStates \cup {"confirmed", "fatal_error"}

RECURSIVE SumCopies(_, _)
SumCopies(S, B) ==
    IF S = {} THEN 0
    ELSE LET x == CHOOSE y \in S : TRUE
         IN  CopiesIn(x, B) + SumCopies(S \ {x}, B)

\* GROUP BY meta->'RequestID' with count(meta->'RequestID') over the rows of
\* the bag txes that satisfy the WHERE clause, as a set of result rows
GroupCount(sel, txes) ==
    {[RequestID |-> r,
      Count |-> SumCopies({t \in sel : t.RequestID = r}, txes)] :
        r \in {t.RequestID : t \in sel}}

\* the rows of unconfirmedQuery
unconfirmedQuery(txes) ==
    GroupCount({t \in BagToSet(txes) :
                   /\ t.RequestID # NULL
                   /\ t.state \in InFlightStates}, txes)

\* er.block_number >= (latest head of the chain) - $2
InWindowStrict(blockNumber, h, evmFinalityDepth) ==
    blockNumber > h - evmFinalityDepth

InWindow(blockNumber, h, evmFinalityDepth) ==
    blockNumber >= h - evmFinalityDepth

\* the rows of confirmedQuery: the join keeps the transactions with a receipt
confirmedQuery(txes, h, evmFinalityDepth) ==
    GroupCount({t \in BagToSet(txes) :
                   /\ t.block_number # NoReceipt
                   /\ t.RequestID # NULL
                   /\ InWindow(t.block_number, h, evmFinalityDepth)}, txes)

SetToSeq(S) ==
    CHOOSE s \in [1..Cardinality(S) -> S] :
        \A i, j \in 1..Cardinality(S) : i # j => s[i] # s[j]

\* unconfirmedQuery UNION ALL confirmedQuery, in one of the orders the store
\* may return the rows
UnionAll(txes, h, evmFinalityDepth) ==
    SetToSeq(unconfirmedQuery(txes))
        \o SetToSeq(confirmedQuery(txes, h, evmFinalityDepth))

\* getRespCounts: the one q.Select either fails or fills counts with the rows
\* of the union, in the order given by the permutation order
getRespCounts(selectErr, txes, h, evmFinalityDepth, order) ==
    IF selectErr
    THEN [err |-> TRUE, counts |-> <<>>, selects |-> 1]
    ELSE LET u == UnionAll(txes, h, evmFinalityDepth)
         IN  [err |-> FALSE, selects |-> 1,
              counts |-> [i \in 1..Len(u) |-> u[order[i]]]]

\* what getRespCounts may return over the store: the error of q.Select, or
\* the rows of the union in any order
StoreAnswers(txes, h, evmFinalityDepth) ==
    {getRespCounts(TRUE, txes, h, evmFinalityDepth, <<>>)}
    \cup {getRespCounts(FALSE, txes, h, evmFinalityDepth, order) :
             order \in Permutations(
                          1..Len(UnionAll(txes, h, evmFinalityDepth)))}

(***************************************************************************)
(* GetStartingResponseCountsV1 / GetStartingResponseCountsV2               *)
(***************************************************************************)
EmptyMap == <<>>

\* respCounts[key] = uint64(c.Count)
MapPut(respCounts, key, count) ==
    [k \in DOMAIN respCounts \cup {key} |->
        IF k = key THEN count ELSE respCounts[k]]

\* req[2:] of a string shorter than two characters panics
ReqTooShort(req) == Len(req) < 2

\* req[2:]
DropPrefixOne(req) == SubSeq(req, 2, Len(req))

DropPrefix(req) == SubSeq(req, 3, Len(req))

\* the key of the V1 map: the request id as a [32]byte
KeyV1(b) == copyReqID(b)

\* the key of the V2 map: the request id as a base-10 string
KeyV2(b) == bigIntString(b)

\* one pass of the loop body up to the map key: the quotes removed, the
\* prefix dropped, the rest hex-decoded
decodeRequestID(raw) ==
    LET req == stringsReplace(raw, 2)
    IN  IF ReqTooShort(req)
        THEN [panic |-> TRUE, ok |-> FALSE, bytes |-> <<>>]
        ELSE LET d == hexDecodeString(DropPrefix(req))
             IN  [panic |-> FALSE, ok |-> d.ok, bytes |-> d.bytes]

\* a 32-byte request id with the given first and last byte, zero between
MkHash(hi, lo) ==
    [i \in 1..HashLength |->
        IF i = 1 THEN hi ELSE IF i = HashLength THEN lo ELSE 0]

\* The values of meta->'RequestID' in the stores of the model. A row holds
\* the position of its value in this table ("the value IDText[i]"), so that
\* a state holds no copy of the text.
\*   1..2  as the transaction manager writes them: the quoted 0x-hex text
\*         of the hashes 0x00..01 and 0xab00..ff
\*   3..6  corrupt or legacy values: the empty string, no 0x prefix, a
\*         character that is no hex digit, an odd length
IDHash == <<MkHash(0, 1), MkHash(171, 255)>>

IDText ==
    <<StoreString(IDHash[1]),
      StoreString(IDHash[2]),
      <<Quote, Quote>>,
      <<Quote, "a", "b", "c", "d", Quote>>,
      <<Quote, "0", "x", "z", "z", Quote>>,
      <<Quote, "0", "x", "a", "b", "c", Quote>>>>

WellFormedIDs == DOMAIN IDHash

MalformedIDs == DOMAIN IDText \ WellFormedIDs

RECURSIVE decodeFrom(_)
decodeFrom(id) ==
    IF id > Len(IDText) THEN <<>>
    ELSE LET d == decodeRequestID(IDText[id])
         IN  <<[panic |-> d.panic, ok |-> d.ok,
                V1 |-> IF d.ok THEN KeyV1(d.bytes) ELSE <<>>,
                V2 |-> IF d.ok THEN KeyV2(d.bytes) ELSE <<>>]>>
             \o decodeFrom(id + 1)

\* the loop body's decoding of each value of IDText, computed once
Decoded == decodeFrom(1)

RECURSIVE rangeCounts(_, _, _, _)
\* for _, c := range counts { ... } of either version
rangeCounts(version, counts, i, respCounts) ==
    IF i > Len(counts)
    THEN [panic |-> FALSE, respCounts |-> respCounts]
    ELSE LET c == counts[i]
             d == Decoded[c.RequestID]
         IN  IF d.panic
             THEN [panic |-> TRUE, respCounts |-> EmptyMap]
             ELSE IF ~d.ok
                  THEN rangeCounts(version, counts, i + 1, respCounts)
                  ELSE rangeCounts(version, counts, i + 1,
                                   MapPut(respCounts, d[version], c.Count))

startingResponseCountsFatal(version, r) ==
    IF r.err
    THEN [panic |-> TRUE, respCounts |-> EmptyMap, selects |-> r.selects]
    ELSE LET m == rangeCounts(version, r.counts, 1, EmptyMap)
         IN  [panic |-> m.panic, respCounts |-> m.respCounts,
              selects |-> r.selects]

\* the body the two functions share: getRespCounts is called once; on its
\* error the map stays empty, else the loop fills it
startingResponseCounts(version, r) ==
    IF r.err
    THEN [panic |-> FALSE, respCounts |-> EmptyMap, selects |-> r.selects]
    ELSE LET m == rangeCounts(version, r.counts, 1, EmptyMap)
         IN  [panic |-> m.panic, respCounts |-> m.respCounts,
              selects |-> r.selects]

GetStartingResponseCountsV1(r) == startingResponseCounts("V1", r)

GetStartingResponseCountsV2(r) == startingResponseCounts("V2", r)

(***************************************************************************)
(* Delegate.ServicesForSpec                                                *)
(***************************************************************************)
TaskTypes == {"VRFTask", "VRFTaskV2", "other"}

\* pl.Tasks of the compiled pipelines
TaskLists == UNION {[1..n -> TaskTypes] : n \in 0..MaxTasks}

\* the collaborator calls of ServicesForSpec that can return an error
FailPoints == {"Pipeline", "ChainGet", "NewVRFCoordinator",
               "NewVRFCoordinatorV2", "LINKETHFEED",
               "NewAggregatorV3Interface"}

\* return nil, err
Failed(err, selects) ==
    [outcome |-> "error", err |-> err, listeners |-> 0, version |-> "none",
     respCount |-> EmptyMap, selects |-> selects]

\* return []job.ServiceCtx{&listenerVx{..., respCount: rc, ...}}, nil; a panic
\* while the literal is evaluated unwinds the call
Listener(version, rc) ==
    IF rc.panic
    THEN [outcome |-> "panic", err |-> "none", listeners |-> 0,
          version |-> "none", respCount |-> EmptyMap, selects |-> rc.selects]
    ELSE [outcome |-> "listener", err |-> "none", listeners |-> 1,
          version |-> version, respCount |-> rc.respCounts,
          selects |-> rc.selects]

RECURSIVE forTasksV2First(_, _, _, _)
forTasksV2First(tasks, i, fail, rc) ==
    IF \E k \in 1..Len(tasks) : tasks[k] = "VRFTaskV2"
    THEN IF fail \in {"LINKETHFEED", "NewAggregatorV3Interface"}
         THEN Failed(fail, 0)
         ELSE Listener("V2", rc["V2"])
    ELSE IF \E k \in 1..Len(tasks) : tasks[k] = "VRFTask"
         THEN Listener("V1", rc["V1"])
         ELSE Failed("NoVRFTask", 0)

RECURSIVE forTasks(_, _, _, _)
\* for _, task := range pl.Tasks { ... }; return nil, errors.New(...)
\* rc[v] is what GetStartingResponseCountsVv returns if it is called
forTasks(tasks, i, fail, rc) ==
    IF i > Len(tasks)
    THEN Failed("NoVRFTask", 0)
    ELSE IF tasks[i] = "VRFTaskV2"
         THEN IF fail \in {"LINKETHFEED", "NewAggregatorV3Interface"}
              THEN Failed(fail, 0)
              ELSE Listener("V2", rc["V2"])
         ELSE IF tasks[i] = "VRFTask"
              THEN Listener("V1", rc["V1"])
              ELSE forTasks(tasks, i + 1, fail, rc)

\* the result of ServicesForSpec(jb) when the collaborator call fail (if any)
\* returns an error
servicesForSpec(jb, fail, rc) ==
    IF ~jb.VRFSpec \/ ~jb.PipelineSpec
    THEN Failed("InvalidSpec", 0)
    ELSE IF fail \in {"Pipeline", "ChainGet", "NewVRFCoordinator",
                      "NewVRFCoordinatorV2"}
         THEN Failed(fail, 0)
         ELSE forTasks(jb.tasks, 1, fail, rc)

(***************************************************************************)
(* State                                                                   *)
(***************************************************************************)
NoTasks == <<>>

NoCall ==
    [fn |-> "none", outcome |-> "none", err |-> "none", listeners |-> 0,
     version |-> "none", respCount |-> EmptyMap, selects |-> 0,
     tasks |-> NoTasks, counts |-> <<>>, queryErr |-> FALSE, depth |-> 0]

\* the goroutines that call Start and Close of one service instance
Callers == 1..MaxCallers

\* an empty store at the first head; a service fresh from NewFoo behind
\* NewServiceCtx, its channels open and no call made
Init ==
    /\ eth_txes = EmptyBag
    /\ head = 0
    /\ ret = NoCall
    /\ state = "Unstarted"
    /\ stop = FALSE
    /\ done = FALSE
    /\ launched = 0
    /\ running = 0
    /\ crashed = FALSE
    /\ pc = [p \in Callers |-> "idle"]
    /\ callOp = [p \in Callers |-> "none"]
    /\ callRet = [p \in Callers |-> "none"]
    /\ ctxDone = [p \in Callers |-> FALSE]

\* Before the call (ret = NoCall) the store fills up: the transaction manager
\* (or an operator) inserts a transaction
InsertEthTx(ids, states, blocks) ==
    /\ ret = NoCall
    /\ BagCardinality(eth_txes) < MaxTxes
    /\ \E id \in ids, st \in states :
         \E b \in (IF st = "confirmed" THEN blocks ELSE {NoReceipt}) :
            eth_txes' = eth_txes (+) SetToBag({[RequestID |-> id,
                                               state |-> st,
                                               block_number |-> b]})
    /\ UNCHANGED <<head, ret, svcVars>>

\* before the call the head tracker stores a new head of the chain
NewHead ==
    /\ ret = NoCall
    /\ head < MaxHead
    /\ head' = head + 1
    /\ UNCHANGED <<eth_txes, ret, svcVars>>

\* the call of getRespCounts(q, chainID, evmFinalityDepth) over the store
GetRespCounts ==
    /\ ret = NoCall
    /\ \E evmFinalityDepth \in 0..MaxDepth :
         \E r \in StoreAnswers(eth_txes, head, evmFinalityDepth) :
            ret' = [NoCall EXCEPT !.fn = "getRespCounts",
                                  !.outcome = IF r.err THEN "error" ELSE "ok",
                                  !.selects = r.selects,
                                  !.counts = r.counts,
                                  !.queryErr = r.err,
                                  !.depth = evmFinalityDepth]
    /\ UNCHANGED <<eth_txes, head, svcVars>>

\* jb: whether VRFSpec and PipelineSpec are set, and the compiled tasks
Jobs ==
    {[VRFSpec |-> v, PipelineSpec |-> p, tasks |-> NoTasks] :
        v, p \in BOOLEAN}
    \cup {[VRFSpec |-> TRUE, PipelineSpec |-> TRUE, tasks |-> t] :
             t \in TaskLists}

\* the call of d.ServicesForSpec(jb) over the store, on a chain whose
\* config answers EvmFinalityDepth() with evmFinalityDepth
ServicesForSpec(evmFinalityDepth) ==
    /\ ret = NoCall
    /\ \E r \in StoreAnswers(eth_txes, head, evmFinalityDepth) :
         LET rc == [v \in {"V1", "V2"} |->
                       IF v = "V1" THEN GetStartingResponseCountsV1(r)
                                   ELSE GetStartingResponseCountsV2(r)]
         IN  \E jb \in Jobs, fail \in FailPoints \cup {"none"} :
                LET res == servicesForSpec(jb, fail, rc)
                IN  ret' = [NoCall EXCEPT
                               !.fn = "ServicesForSpec",
                               !.outcome = res.outcome,
                               !.err = res.err,
                               !.listeners = res.listeners,
                               !.version = res.version,
                               !.respCount = res.respCount,
                               !.selects = res.selects,
                               !.tasks = jb.tasks,
                               !.counts = IF res.selects > 0
                                          THEN r.counts ELSE <<>>,
                               !.queryErr = res.selects > 0 /\ r.err]
    /\ UNCHANGED <<eth_txes, head, svcVars>>

\* the delegate over a store whose confirmed transactions are at the head
Next ==
    \/ InsertEthTx(DOMAIN IDText,
                   {"unconfirmed", "confirmed"}, {head})
    \/ ServicesForSpec(MaxDepth)

Spec == Init /\ [][Next]_vars

\* the query over a store of transactions of every state and height
QueryIDs == {1, 2, NULL}

NextQuery ==
    \/ InsertEthTx(QueryIDs, TxStates, 0..head)
    \/ NewHead
    \/ GetRespCounts

SpecQuery == Init /\ [][NextQuery]_vars

(***************************************************************************)
(* The service lifecycle: adapter, the Service template (foo), and the      *)
(* start-once/stop-once guard it embeds                                    *)
(***************************************************************************)
Return(p, err) ==
    /\ pc' = [pc EXCEPT ![p] = "idle"]
    /\ callRet' = [callRet EXCEPT ![p] = err]

Goto(p, label) ==
    /\ pc' = [pc EXCEPT ![p] = label]
    /\ UNCHANGED callRet

\* adapter.Start(ctx): return a.service.Start(); the context is not used
AdapterStart(p) ==
    /\ ~crashed
    /\ pc[p] = "idle"
    /\ \E cancelled \in BOOLEAN :
         ctxDone' = [ctxDone EXCEPT ![p] = cancelled]
    /\ pc' = [pc EXCEPT ![p] = "Start"]
    /\ callOp' = [callOp EXCEPT ![p] = "Start"]
    /\ callRet' = [callRet EXCEPT ![p] = "none"]
    /\ UNCHANGED <<state, stop, done, launched, running, crashed, storeVars>>

\* adapter.Close(): return a.service.Close()
AdapterClose(p) ==
    /\ ~crashed
    /\ pc[p] = "idle"
    /\ ctxDone' = [ctxDone EXCEPT ![p] = FALSE]
    /\ pc' = [pc EXCEPT ![p] = "Close"]
    /\ callOp' = [callOp EXCEPT ![p] = "Close"]
    /\ callRet' = [callRet EXCEPT ![p] = "none"]
    /\ UNCHANGED <<state, stop, done, launched, running, crashed, storeVars>>

FooStartUnguarded(p) ==
    /\ ~crashed
    /\ pc[p] = "Start"
    /\ Goto(p, "StartFn")
    /\ UNCHANGED <<state, stop, done, launched, running, crashed, callOp,
                   ctxDone, storeVars>>

\* foo.Start(): return f.StartOnce("Foo", func() error { ... })
FooStart(p) ==
    /\ ~crashed
    /\ pc[p] = "Start"
    /\ Goto(p, "StartOnce")
    /\ UNCHANGED <<state, stop, done, launched, running, crashed, callOp,
                   ctxDone, storeVars>>

\* StartOnce: from Unstarted the guard moves to Started and runs fn; from
\* any other state it fails at once with AlreadyStarted and runs nothing
StartOnce(p) ==
    /\ ~crashed
    /\ pc[p] = "StartOnce"
    /\ IF state = "Unstarted"
       THEN state' = "Started" /\ Goto(p, "StartFn")
       ELSE UNCHANGED state /\ Return(p, "AlreadyStarted")
    /\ UNCHANGED <<stop, done, launched, running, crashed, callOp, ctxDone,
                   storeVars>>

\* the function foo.Start hands to StartOnce: go f.run(); return nil
FooStartFn(p) ==
    /\ ~crashed
    /\ pc[p] = "StartFn"
    /\ launched < MaxLaunch
    /\ launched' = launched + 1
    /\ running' = running + 1
    /\ Return(p, "nil")
    /\ UNCHANGED <<state, stop, done, crashed, callOp, ctxDone, storeVars>>

\* foo.Close(): return f.StopOnce("Foo", func() error { ... })
FooClose(p) ==
    /\ ~crashed
    /\ pc[p] = "Close"
    /\ Goto(p, "StopOnce")
    /\ UNCHANGED <<state, stop, done, launched, running, crashed, callOp,
                   ctxDone, storeVars>>

\* StopOnce: from Started the guard moves to Stopped and runs fn; it fails
\* at once with NotStarted from Unstarted and AlreadyStopped from Stopped
StopOnce(p) ==
    /\ ~crashed
    /\ pc[p] = "StopOnce"
    /\ IF state = "Started"
       THEN state' = "Stopped" /\ Goto(p, "CloseStop")
       ELSE /\ UNCHANGED state
            /\ Return(p, IF state = "Unstarted" THEN "NotStarted"
                                               ELSE "AlreadyStopped")
    /\ UNCHANGED <<stop, done, launched, running, crashed, callOp, ctxDone,
                   storeVars>>

\* the function foo.Close hands to StopOnce, first statement: close(f.stop)
FooCloseStop(p) ==
    /\ ~crashed
    /\ pc[p] = "CloseStop"
    /\ stop' = TRUE
    /\ crashed' = stop
    /\ Goto(p, "AwaitDone")
    /\ UNCHANGED <<state, done, launched, running, callOp, ctxDone,
                   storeVars>>

FooCloseNoWait(p) ==
    /\ ~crashed
    /\ pc[p] = "AwaitDone"
    /\ Return(p, "nil")
    /\ UNCHANGED <<state, stop, done, launched, running, crashed, callOp,
                   ctxDone, storeVars>>

\* ... then: <-f.done; return nil
FooCloseAwaitDone(p) ==
    /\ ~crashed
    /\ pc[p] = "AwaitDone"
    /\ done
    /\ Return(p, "nil")
    /\ UNCHANGED <<state, stop, done, launched, running, crashed, callOp,
                   ctxDone, storeVars>>

\* foo.run(): a run loop takes case <-f.stop, returns, and its deferred
\* close(f.done) runs
FooRun ==
    /\ ~crashed
    /\ running > 0
    /\ stop
    /\ running' = running - 1
    /\ done' = TRUE
    /\ crashed' = done
    /\ UNCHANGED <<state, stop, launched, pc, callOp, callRet, ctxDone,
                   storeVars>>

\* the steps of a call under way
CallStep(p) ==
    \/ FooStart(p)
    \/ StartOnce(p)
    \/ FooStartFn(p)
    \/ FooClose(p)
    \/ StopOnce(p)
    \/ FooCloseStop(p)
    \/ FooCloseAwaitDone(p)

NextSvc ==
    \/ \E p \in Callers : AdapterStart(p)
    \/ \E p \in Callers : AdapterClose(p)
    \/ \E p \in Callers : FooStart(p)
    \/ \E p \in Callers : StartOnce(p)
    \/ \E p \in Callers : FooStartFn(p)
    \/ \E p \in Callers : FooClose(p)
    \/ \E p \in Callers : StopOnce(p)
    \/ \E p \in Callers : FooCloseStop(p)
    \/ \E p \in Callers : FooCloseAwaitDone(p)
    \/ FooRun

SpecSvc == Init /\ [][NextSvc]_vars

\* the scheduler runs every goroutine that can take a step: a call under
\* way goes on, and so does a run loop whose stop channel is closed
SpecSvcFair ==
    /\ Init
    /\ [][NextSvc]_vars
    /\ \A p \in Callers : WF_vars(CallStep(p))
    /\ WF_vars(FooRun)

(***************************************************************************)
(* Properties of the reconciliation and of the delegate                    *)
(***************************************************************************)
RECURSIVE chunkValue(_, _, _, _)
chunkValue(d, i, last, acc) ==
    IF i > last THEN acc
    ELSE chunkValue(d, i + 1, last, acc * 10 + fromHexChar(d[i]))

RECURSIVE chunksToLimbs(_, _, _)
chunksToLimbs(d, i, limbs) ==
    IF i > Len(d) THEN limbs
    ELSE LET last == IF i = 1 /\ Len(d) % 6 # 0 THEN Len(d) % 6 ELSE i + 5
         IN  chunksToLimbs(d, last + 1,
                 mulAdd(limbs, 1, pow10(last - i + 1),
                        chunkValue(d, i, last, 0), 256, <<>>))

\* the big-endian bytes, without leading zeros, of the number a base-10
\* text denotes
ParseDecimal(d) ==
    LET limbs == chunksToLimbs(d, 1, <<>>)
    IN  stripZeros([k \in 1..Len(limbs) |-> limbs[Len(limbs) + 1 - k]])

\* a base-10 text in canonical form: digits only, no leading zero
IsDecimal(d) ==
    /\ Len(d) >= 1
    /\ \A i \in 1..Len(d) : fromHexChar(d[i]) <= 9
    /\ (d[1] = "0" => Len(d) = 1)

ServicesCalled == ret.fn = "ServicesForSpec"

\* the call reached the loop over the rows the store returned
RowsRead == ServicesCalled /\ ret.selects > 0 /\ ~ret.queryErr

RowIDs == {ret.counts[i].RequestID : i \in DOMAIN ret.counts}

RECURSIVE RowTotalFrom(_, _)
RowTotalFrom(id, i) ==
    IF i > Len(ret.counts) THEN 0
    ELSE (IF ret.counts[i].RequestID = id THEN ret.counts[i].Count ELSE 0)
         + RowTotalFrom(id, i + 1)

\* the in-flight count plus the confirmed count of an identifier
RowTotal(id) == RowTotalFrom(id, 1)

\* the keys of the returned mapping that stand for the 32-byte identifier b
KeysFor(b) ==
    {k \in DOMAIN ret.respCount :
        IF ret.version = "V1" THEN k = b
        ELSE IsDecimal(k) /\ ParseDecimal(k) = stripZeros(b)}

\* C1 (as claimed): the mapping gives each request identifier the sum of its
\* in-flight count and its confirmed count, whatever the order of the rows.
C1_SumPerIdentifier ==
    (/\ ServicesCalled
     /\ ret.outcome = "listener"
     /\ ~ret.queryErr
     /\ RowIDs \subseteq WellFormedIDs)
        => \A id \in RowIDs :
              \E k \in KeysFor(IDHash[id]) : ret.respCount[k] = RowTotal(id)

\* C2: when q.Select fails, GetStartingResponseCountsV1/V2 return an empty
\* mapping, no error reaches ServicesForSpec, and ServicesForSpec returns one
\* listener seeded with the empty mapping.
C2_QueryErrorEmptyMap ==
    (ServicesCalled /\ ret.queryErr)
        => /\ ret.outcome = "listener"
           /\ ret.err = "none"
           /\ ret.listeners = 1
           /\ ret.version \in {"V1", "V2"}
           /\ ret.respCount = EmptyMap

C2_Witness ==
    /\ ServicesCalled
    /\ ret.queryErr
    /\ ret.version = "V1"
    /\ BagCardinality(eth_txes) = MaxTxes

\* C3 (as claimed): whatever rows the store returns, the pass completes
\* normally, every malformed row is skipped and every well-formed row of the
\* batch is in the returned mapping.
C3_MalformedRowsSkipped ==
    RowsRead
        => /\ ret.outcome = "listener"
           /\ \A id \in RowIDs \cap WellFormedIDs : KeysFor(IDHash[id]) # {}
           /\ Cardinality(DOMAIN ret.respCount)
                  = Cardinality(RowIDs \cap WellFormedIDs)

HasTask(type) == \E i \in DOMAIN ret.tasks : ret.tasks[i] = type

\* the job was valid and every collaborator call succeeded
CollaboratorsSucceeded ==
    ServicesCalled /\ ret.err \notin FailPoints \cup {"InvalidSpec"}

NoVRFTaskError ==
    ret.outcome = "error" /\ ret.err = "NoVRFTask" /\ ret.listeners = 0

\* C4 (as claimed): a task list that contains a V2 task never yields a V1
\* listener, one that contains a V1 task never yields a V2 listener, and one
\* that contains neither fails with the "expected a vrf task" error.
C4_VersionExclusive ==
    CollaboratorsSucceeded
        => /\ HasTask("VRFTaskV2") => ret.version # "V1"
           /\ HasTask("VRFTask") => ret.version # "V2"
           /\ (~HasTask("VRFTaskV2") /\ ~HasTask("VRFTask")) => NoVRFTaskError

VRFPositions ==
    {i \in DOMAIN ret.tasks : ret.tasks[i] \in {"VRFTask", "VRFTaskV2"}}

FirstVRFTask ==
    ret.tasks[CHOOSE i \in VRFPositions : \A j \in VRFPositions : i <= j]

\* C4 (amended): the first V1 or V2 task in list order decides: when that
\* task is a V2 task the returned listener is never a V1 listener, when it is
\* a V1 task the returned listener is never a V2 listener, and a list with
\* neither fails with the "expected a vrf task" error and returns no listener.
C4_FirstMatchDecides ==
    CollaboratorsSucceeded
        => IF VRFPositions = {}
           THEN NoVRFTaskError
           ELSE /\ ret.outcome # "error"
                /\ FirstVRFTask = "VRFTaskV2" => ret.version # "V1"
                /\ FirstVRFTask = "VRFTask" => ret.version # "V2"
                /\ ret.outcome = "listener" => ret.version \in {"V1", "V2"}

C4_Witness ==
    /\ CollaboratorsSucceeded
    /\ ret.tasks = <<"VRFTask", "VRFTaskV2">>
    /\ ret.outcome = "listener"
    /\ ret.version = "V1"

\* the number of rows of the answer with the given identifier and count
NumRows(id, n) ==
    Cardinality({i \in DOMAIN ret.counts :
                    ret.counts[i] = [RequestID |-> id, Count |-> n]})

\* the transactions of an identifier in state unstarted, in_progress or
\* unconfirmed
InFlightOf(id) ==
    SumCopies({[RequestID |-> id, state |-> st, block_number |-> NoReceipt] :
                  st \in {"unstarted", "in_progress", "unconfirmed"}},
              eth_txes)

\* the confirmed transactions of an identifier whose receipt is at a block
\* number >= H - D
ConfirmedOf(id) ==
    SumCopies({[RequestID |-> id, state |-> "confirmed", block_number |-> b] :
                  b \in {x \in 0..MaxHead : x >= head - ret.depth}},
              eth_txes)

\* C5: with head H and finality depth D, a confirmed transaction carrying a
\* request identifier is counted iff its receipt block number is >= H - D,
\* and a transaction in state unstarted, in_progress or unconfirmed is
\* counted whatever the heights: the rows of an identifier are its in-flight
\* count (if any) and its in-window confirmed count (if any), nothing else.
C5_FinalityBoundary ==
    (ret.fn = "getRespCounts" /\ ~ret.queryErr)
        => /\ \A i \in DOMAIN ret.counts :
                 ret.counts[i].RequestID \in QueryIDs \ {NULL}
           /\ \A id \in QueryIDs \ {NULL} :
                 \A n \in 1..MaxTxes :
                    NumRows(id, n) = (IF InFlightOf(id) = n THEN 1 ELSE 0)
                                     + (IF ConfirmedOf(id) = n THEN 1 ELSE 0)
           /\ \A i \in DOMAIN ret.counts : ret.counts[i].Count \in 1..MaxTxes

\* a row at exactly H - D is counted, one at H - D - 1 is not
C5_Witness ==
    /\ ret.fn = "getRespCounts"
    /\ ~ret.queryErr
    /\ head - ret.depth - 1 >= 0
    /\ eth_txes = SetToBag({[RequestID |-> 1, state |-> "confirmed",
                              block_number |-> head - ret.depth],
                             [RequestID |-> 1, state |-> "confirmed",
                              block_number |-> head - ret.depth - 1]})
    /\ ret.counts = <<[RequestID |-> 1, Count |-> 1]>>

\* C6: the store text "0x" + hex(b) of a 32-byte identifier b, quoted, is
\* decoded back to b: the V1 key is b, the V2 key is the base-10 text of the
\* unsigned big-endian integer b, and no other key appears; the identifier
\* 0x00..01 with one in-flight row and no confirmed row yields {"1": 1}.
C6_RoundTrip ==
    /\ (RowsRead /\ ret.outcome = "listener" /\ RowIDs \subseteq WellFormedIDs)
          => /\ \A id \in RowIDs : KeysFor(IDHash[id]) # {}
             /\ \A k \in DOMAIN ret.respCount :
                   \E id \in RowIDs : k \in KeysFor(IDHash[id])
    /\ (/\ RowsRead
        /\ ret.version = "V2"
        /\ eth_txes = SetToBag({[RequestID |-> 1, state |-> "unconfirmed",
                                  block_number |-> NoReceipt]}))
          => ret.respCount = (<<"1">> :> 1)

C6_Witness ==
    /\ RowsRead
    /\ ret.outcome = "listener"
    /\ ret.version = "V2"
    /\ RowIDs = WellFormedIDs
    /\ Cardinality(DOMAIN ret.respCount) = 2

\* C10 (as claimed): every call of ServicesForSpec ends either in an error
\* with no listener or in exactly one listener with no error; the store query
\* is issued exactly once in a call that returns a listener and never in a
\* call that fails.
C10_OneOutcomeOneQuery ==
    ServicesCalled
        => \/ /\ ret.outcome = "error"
              /\ ret.err # "none"
              /\ ret.listeners = 0
              /\ ret.selects = 0
           \/ /\ ret.outcome = "listener"
              /\ ret.err = "none"
              /\ ret.listeners = 1
              /\ ret.selects = 1

(***************************************************************************)
(* Properties of the lifecycle                                             *)
(***************************************************************************)
StartReturned(p, err) == callOp[p] = "Start" /\ callRet[p] = err

\* a Start that does not get past the guard changes nothing of the service
RejectedStartIsNoOp ==
    \A p \in Callers :
        (pc[p] = "StartOnce" /\ pc'[p] = "idle")
            => /\ callRet'[p] = "AlreadyStarted"
               /\ UNCHANGED <<state, stop, done, launched, running, crashed>>

\* once a Start has succeeded, a Start that reaches the guard is rejected
StartAfterStartRejected ==
    \A p \in Callers :
        (launched >= 1 /\ pc[p] = "StartOnce" /\ pc'[p] # "StartOnce")
            => pc'[p] = "idle" /\ callRet'[p] = "AlreadyStarted"

\* C7: under any interleaving of concurrent Start calls, after one Start has
\* succeeded every further Start fails with AlreadyStarted and performs no
\* side effect, so at most one run loop is ever launched per instance.
C7_StartOnce ==
    /\ [](launched <= 1)
    /\ [](Cardinality({p \in Callers : StartReturned(p, "nil")}) <= 1)
    /\ [](\A p \in Callers :
            callOp[p] = "Start" => callRet[p] \in {"none", "nil",
                                                   "AlreadyStarted"})
    /\ [][RejectedStartIsNoOp /\ StartAfterStartRejected]_vars

C7_Witness ==
    /\ launched = 1
    /\ \E p, q \in Callers :
         StartReturned(p, "nil") /\ StartReturned(q, "AlreadyStarted")

CloseReturned(p) == callOp[p] = "Close" /\ callRet[p] = "nil"

CloseUnderWay(p) == pc[p] \in {"Close", "StopOnce", "CloseStop", "AwaitDone"}

\* C8: Close returns only after the run loop launched by the paired Start
\* has observed the stop signal and terminated (done is closed): in no
\* reachable state has Close returned while the run loop is still running;
\* and a Close that was issued eventually returns.
C8_CloseJoins ==
    /\ [](\A p \in Callers :
            CloseReturned(p)
                => stop /\ done /\ launched = 1 /\ running = 0)
    /\ \A p \in Callers : CloseUnderWay(p) ~> (pc[p] = "idle")

C8_Witness ==
    \E p, q \in Callers :
        StartReturned(p, "nil") /\ CloseReturned(q) /\ running = 0

\* C9 (as claimed): a Start whose context is already cancelled when it is
\* invoked aborts: the underlying service is not started by it.
C9_CancelledStartAborts ==
    \A p \in Callers :
        (callOp[p] = "Start" /\ ctxDone[p])
            => pc[p] # "StartFn" /\ callRet[p] # "nil"

====
